---- MODULE Spec2Model ----
(***************************************************************************)
(* Model of client/stream_client.py: the binary framing protocol           *)
(* (build_handshake, build_frame), the per-stream session stream_once and  *)
(* the orchestration in main, run under asyncio.run.                       *)
(*                                                                         *)
(* One action is one run of a coroutine between two suspension points      *)
(* (await): asyncio runs such a segment without interleaving.              *)
(***************************************************************************)
EXTENDS Integers, Sequences, FiniteSets, TLC

(***************************************************************************)
(* Bounds of the model.                                                    *)
(***************************************************************************)
\* largest value of --streams explored
MaxStreams == 2
\* largest number of samples in the WAV source explored
MaxSamples == 3
\* Stand-in for 2^32, the exclusive limit of an "I" field of struct.pack:
\* the sequence field overflows after this many frames.
SeqFieldLimit == 4

(***************************************************************************)
(* Program constants.                                                      *)
(***************************************************************************)
HANDSHAKE_MAGIC == 1094996035
ADPCM_FRAME_MAGIC == 1094996038
PCM_FRAME_MAGIC == 1179468624
HANDSHAKE_LEN == 32
\* protocol version, second argument of struct.pack in build_handshake
HANDSHAKE_VERSION == 1
\* exclusive limit of an "H" field of struct.pack
U16Limit == 65536

\* Python's None as the value of the local variable state
None == <<>>
\* no exception
NoExc == "none"
\* no message
NoMsg == [magic |-> 0]
\* not in asyncio.sleep
NoDelay == <<0, 1>>

Min(a, b) == IF a < b THEN a ELSE b

(***************************************************************************)
(* audioop.lin2adpcm(pcm, 2, state): the Intel/DVI ADPCM coder.            *)
(***************************************************************************)
stepsizeTable ==
  << 7, 8, 9, 10, 11, 12, 13, 14, 16, 17,
     19, 21, 23, 25, 28, 31, 34, 37, 41, 45,
     50, 55, 60, 66, 73, 80, 88, 97, 107, 118,
     130, 143, 157, 173, 190, 209, 230, 253, 279, 307,
     337, 371, 408, 449, 494, 544, 598, 658, 724, 796,
     876, 963, 1060, 1166, 1282, 1411, 1552, 1707, 1878, 2066,
     2272, 2499, 2749, 3024, 3327, 3660, 4026, 4428, 4871, 5358,
     5894, 6484, 7132, 7845, 8630, 9493, 10442, 11487, 12635, 13899,
     15289, 16818, 18500, 20350, 22385, 24623, 27086, 29794, 32767 >>

indexTable == << -1, -1, -1, -1, 2, 4, 6, 8, -1, -1, -1, -1, 2, 4, 6, 8 >>

Clamp(x, lo, hi) == IF x < lo THEN lo ELSE IF x > hi THEN hi ELSE x

\* One bit of the quantizer: diff is compared with the step; weight is the
\* bit of the code that is set when the step fits.
QuantBit(diff, step, weight) ==
  IF diff >= step
  THEN [diff |-> diff - step, delta |-> weight, vpdiff |-> step]
  ELSE [diff |-> diff, delta |-> 0, vpdiff |-> 0]

\* The three magnitude bits of the code of |diff| and the reconstructed
\* difference vpdiff, for the step size step (step >> 1, step >> 2 below).
Quantize(diff, step) ==
  CHOOSE q \in
    UNION { UNION { { [delta  |-> q4.delta + q2.delta + q1.delta,
                       vpdiff |-> (step \div 8) + q4.vpdiff + q2.vpdiff + q1.vpdiff] :
                      q1 \in {QuantBit(q2.diff, step \div 4, 1)} } :
                    q2 \in {QuantBit(q4.diff, step \div 2, 2)} } :
            q4 \in {QuantBit(diff, step, 4)} } : TRUE

\* The update of predictor and index by the code with sign bit sign.
AdpcmUpdate(st, sign, q) ==
  [code  |-> q.delta + sign,
   state |-> << Clamp(IF sign = 8 THEN st[1] - q.vpdiff ELSE st[1] + q.vpdiff,
                      -32768, 32767),
                Clamp(st[2] + indexTable[q.delta + sign + 1], 0, 88) >>]

\* One sample: the 4-bit code and the coder state after it.
\* st = <<valpred, index>>.
AdpcmStep(val, st) ==
  IF val < st[1]
  THEN AdpcmUpdate(st, 8, Quantize(st[1] - val, stepsizeTable[st[2] + 1]))
  ELSE AdpcmUpdate(st, 0, Quantize(val - st[1], stepsizeTable[st[2] + 1]))

\* The sequence of 4-bit codes of a block and the coder state after it.
\* (\E/CHOOSE over a one-element set names a value that is computed once.)
RECURSIVE AdpcmCodes(_, _)
AdpcmCodes(block, st) ==
  IF block = <<>> THEN [codes |-> <<>>, state |-> st]
  ELSE CHOOSE res \in
         UNION { { [codes |-> <<r.code>> \o rest.codes, state |-> rest.state] :
                     rest \in {AdpcmCodes(Tail(block), r.state)} } :
                 r \in {AdpcmStep(Head(block), st)} } : TRUE

\* Two codes per output byte, first code in the high nibble.  The output
\* buffer is allocated with len/(width*2) bytes: the pending code of an odd
\* block is never written.
PackNibbles(codes) ==
  [k \in 1..(Len(codes) \div 2) |-> codes[2 * k - 1] * 16 + codes[2 * k]]

Lin2Adpcm(block, st) ==
  LET r == AdpcmCodes(block, st)
  IN  [adpcm |-> PackNibbles(r.codes), state |-> r.state]


(***************************************************************************)
(* Byte level helpers of struct.pack.                                      *)
(***************************************************************************)
\* "<h": a signed 16-bit value as two little-endian bytes
PackInt16(v) ==
  LET u == IF v < 0 THEN v + 65536 ELSE v
  IN  <<u % 256, u \div 256>>

\* inverse of PackInt16 (struct.unpack "<h")
UnpackInt16(b) ==
  LET u == b[1] + 256 * b[2]
  IN  IF u >= 32768 THEN u - 65536 ELSE u

RECURSIVE PcmBytes(_)
\* the bytes wf.readframes returns for a block of 16-bit mono samples
PcmBytes(block) ==
  IF block = <<>> THEN <<>>
  ELSE PackInt16(Head(block)) \o PcmBytes(Tail(block))

\* struct.pack("<hBB", predictor, index, 0) raises struct.error unless
SubHeaderFits(predictor, index) ==
  predictor \in -32768..32767 /\ index \in 0..255

PackSubHeader(predictor, index) == PackInt16(predictor) \o <<index, 0>>

(***************************************************************************)
(* build_handshake and build_frame.  A record stands for the packed bytes, *)
(* one field per struct field; the Fits predicates tell when struct.pack    *)
(* raises struct.error instead.                                            *)
(***************************************************************************)
HandshakeFits(stream_id, sample_rate, channels, codec, frame_samples, timestamp_ms) ==
  /\ stream_id >= 0
  /\ sample_rate >= 0
  /\ channels \in 0..(U16Limit - 1)
  /\ codec \in 0..(U16Limit - 1)
  /\ frame_samples \in 0..(U16Limit - 1)
  /\ timestamp_ms >= 0

build_handshake(stream_id, sample_rate, channels, codec, frame_samples, timestamp_ms) ==
  [magic |-> HANDSHAKE_MAGIC, version |-> HANDSHAKE_VERSION,
   headerLen |-> HANDSHAKE_LEN, streamId |-> stream_id,
   sampleRate |-> sample_rate, channels |-> channels, codec |-> codec,
   frameSamples |-> frame_samples, reserved |-> 0,
   timestampMs |-> timestamp_ms]

RECURSIVE PackLE(_, _)
\* "<I", "<H", "<Q": an unsigned value as n little-endian bytes
PackLE(v, n) ==
  IF n = 0 THEN <<>> ELSE <<v % 256>> \o PackLE(v \div 256, n - 1)

RECURSIVE UnpackLE(_)
\* struct.unpack of an unsigned little-endian field
UnpackLE(b) ==
  IF b = <<>> THEN 0 ELSE Head(b) + 256 * UnpackLE(Tail(b))

\* variant: codec is packed before channels
HandshakeBytesCodecFirst(h) ==
  PackLE(h.magic, 4) \o PackLE(h.version, 2) \o PackLE(h.headerLen, 2)
    \o PackLE(h.streamId, 4) \o PackLE(h.sampleRate, 4)
    \o PackLE(h.codec, 2) \o PackLE(h.channels, 2)
    \o PackLE(h.frameSamples, 2) \o PackLE(h.reserved, 2)
    \o PackLE(h.timestampMs, 8)

\* struct.pack("<IHHIIHHHHQ", ...): the bytes of the handshake h
HandshakeBytes(h) ==
  PackLE(h.magic, 4) \o PackLE(h.version, 2) \o PackLE(h.headerLen, 2)
    \o PackLE(h.streamId, 4) \o PackLE(h.sampleRate, 4)
    \o PackLE(h.channels, 2) \o PackLE(h.codec, 2)
    \o PackLE(h.frameSamples, 2) \o PackLE(h.reserved, 2)
    \o PackLE(h.timestampMs, 8)

\* struct.unpack("<IHHIIHHHHQ", b): the decoding by field offsets
DecodeHandshake(b) ==
  [magic |-> UnpackLE(SubSeq(b, 1, 4)), version |-> UnpackLE(SubSeq(b, 5, 6)),
   headerLen |-> UnpackLE(SubSeq(b, 7, 8)), streamId |-> UnpackLE(SubSeq(b, 9, 12)),
   sampleRate |-> UnpackLE(SubSeq(b, 13, 16)), channels |-> UnpackLE(SubSeq(b, 17, 18)),
   codec |-> UnpackLE(SubSeq(b, 19, 20)), frameSamples |-> UnpackLE(SubSeq(b, 21, 22)),
   reserved |-> UnpackLE(SubSeq(b, 23, 24)), timestampMs |-> UnpackLE(SubSeq(b, 25, 32))]

FrameFits(sq, payload, magic) == sq \in 0..(SeqFieldLimit - 1)

build_frame(sq, payload, magic) ==
  [magic |-> magic, len |-> Len(payload), seq |-> sq, payload |-> payload]

IsHandshake(m) == m.magic = HANDSHAKE_MAGIC
IsFrame(m) == m.magic \in {ADPCM_FRAME_MAGIC, PCM_FRAME_MAGIC}

(***************************************************************************)
(* Inputs: the command line of main and the WAV file.                      *)
(***************************************************************************)
Waveforms == { <<1000, -2000, 30000, 5, 7, -32768, 32767, 0>>,
               <<0, 0, -3, 12000, 0, 0, 0, 0>> }
SampleRates == {1000, 1500}
FrameMsValues == {0, 2, 70000}
StreamIdBases == {5}
ClockValues == {1000}

WavFiles ==
  [nchannels : {1, 2}, sampwidth : {1, 2}, framerate : SampleRates,
   samples : {SubSeq(w, 1, n) : w \in Waveforms, n \in 0..MaxSamples}]

ArgSets ==
  [streams : 0..MaxStreams, stream_id_base : StreamIdBases,
   frame_ms : FrameMsValues, realtime : BOOLEAN, loop : BOOLEAN,
   codec : {"adpcm", "pcm"}]

Tasks == 0..(MaxStreams - 1)

\* Arguments of a call of build_handshake on its own: the ends of the field
\* ranges, values inside and values outside.  (Integers of the model end at
\* 2^31 - 1.)
HandshakeCalls ==
  [stream_id : {-1, 0, 5, 305419896}, sample_rate : {0, 16000, 2147483647},
   channels : {0, 1, 2, 65535, 65536}, codec : {0, 1},
   frame_samples : {0, 320, 65535, 70000},
   timestamp_ms : {0, 1000, 2147483647}]

\* no call of build_handshake on its own
NoCall ==
  [stream_id |-> 0, sample_rate |-> 0, channels |-> 0, codec |-> 0,
   frame_samples |-> 0, timestamp_ms |-> 0]
NoRet == [status |-> "idle", bytes |-> <<>>]

VARIABLES
  args,     \* the parsed command line of main
  wav,      \* the WAV file at args.wav
  mainpc,   \* position of main / asyncio.run
  pc,       \* pc[i]: position of task i (stream_once with stream_id base + i)
  exc,      \* exc[i]: the exception task i ended with, or NoExc
  conn,     \* conn[i]: the task's websocket connection
  sent,     \* sent[i]: the messages the connection has accepted, in order
  out,      \* out[i]: the message handed to ws.send and not yet accepted
  pos,      \* pos[i]: read position of the task's wave reader, in samples
  state,    \* state[i]: local variable state (codec state or None)
  state_in, \* state_in[i]: local variable state_in of the last loop body
  seq,      \* seq[i]: local variable seq
  pcm,      \* pcm[i]: local variable pcm, the block last read
  delay,    \* delay[i]: argument of the asyncio.sleep the task is in, as the
            \* fraction <<numerator, denominator>> of a second
  call,     \* arguments of a call of build_handshake made on its own
  ret       \* what that call returned

vars == <<args, wav, mainpc, pc, exc, conn, sent, out, pos, state, state_in, seq, pcm, delay,
          call, ret>>

(***************************************************************************)
(* stream_once.  The local state of a task is handled as a record l with   *)
(* the fields pc, exc, conn, out, pos, state, state_in, seq, pcm, delay.   *)
(*   pc: "absent" (not launched), "created", "connecting", "hs_send",      *)
(*       "send", "sleep", "spinning" (in the while loop, never reaching an *)
(*       await), "done", "failed", "cancelled"                             *)
(***************************************************************************)
Launched == {i \in Tasks : i < args.streams}

\* variant: one wave reader, that of the first task, is read by all tasks
LocalSharedReader(i) ==
  [pc |-> pc[i], exc |-> exc[i], conn |-> conn[i], out |-> out[i],
   pos |-> pos[0], state |-> state[i], state_in |-> state_in[i],
   seq |-> seq[i], pcm |-> pcm[i], delay |-> delay[i]]

Local(i) ==
  [pc |-> pc[i], exc |-> exc[i], conn |-> conn[i], out |-> out[i],
   pos |-> pos[i], state |-> state[i], state_in |-> state_in[i],
   seq |-> seq[i], pcm |-> pcm[i], delay |-> delay[i]]

Store(i, l) ==
  \E r \in {l} :
    /\ pc' = [pc EXCEPT ![i] = r.pc]
    /\ exc' = [exc EXCEPT ![i] = r.exc]
    /\ conn' = [conn EXCEPT ![i] = r.conn]
    /\ out' = [out EXCEPT ![i] = r.out]
    /\ pos' = [pos EXCEPT ![i] = r.pos]
    /\ state' = [state EXCEPT ![i] = r.state]
    /\ state_in' = [state_in EXCEPT ![i] = r.state_in]
    /\ seq' = [seq EXCEPT ![i] = r.seq]
    /\ pcm' = [pcm EXCEPT ![i] = r.pcm]
    /\ delay' = [delay EXCEPT ![i] = r.delay]

\* An exception leaves the with blocks, which closes the connection, and
\* ends the task.
Raise(l, e) ==
  [l EXCEPT !.pc = "failed", !.exc = e, !.out = NoMsg,
            !.conn = IF l.conn = "open" THEN "closed" ELSE l.conn]

\* int(x / 1000) for an integer x: truncation toward zero
IntDiv1000(x) == IF x >= 0 THEN x \div 1000 ELSE -((-x) \div 1000)

FrameSamples == IntDiv1000(wav.framerate * args.frame_ms)

\* variant: the sample width is not checked
BadFormatChannelsOnly == wav.nchannels # 1

\* variant: every task gets the base identifier
StreamIdShared(i) == args.stream_id_base

\* stream_id=args.stream_id_base + i
StreamId(i) == args.stream_id_base + i

\* the check of the source format
BadFormat == wav.nchannels # 1 \/ wav.sampwidth # 2

\* variant: a block shorter than n is not returned
ReadFramesWholeOnly(p, n) ==
  IF p + n <= Len(wav.samples) THEN SubSeq(wav.samples, p + 1, p + n) ELSE <<>>

\* wf.readframes(n) at read position p
ReadFrames(p, n) == SubSeq(wav.samples, p + 1, Min(p + n, Len(wav.samples)))

\* variant: every block is encoded from (0, 0)
StateInAlwaysZero(st) == <<0, 0>>

\* state or (0, 0)
StateIn(st) == IF st = None THEN <<0, 0>> ELSE st

\* variant: the sub-header is written from the state after the encoding
SubHeaderStateAfter(sin, sout) == sout

\* predictor, index = state_in: the state the sub-header is written from,
\* given the state before (sin) and after (sout) the encoding of the block
SubHeaderState(sin, sout) == sin

\* variant: a rewind keeps the codec state
RewindStateKept(st) == st

\* the value of state after a rewind
RewindState(st) == None

\* variant: a rewind restarts the numbering
RewindSeqReset(sq) == 0

\* the value of seq after a rewind
RewindSeq(sq) == sq

\* seq += 1
NextSeq(sq) == sq + 1

\* The loop body from state_in = ... to ws.send(frame), for the block just
\* read, which leaves the read position at p.
LoopBody(l, block, p) ==
  LET sin == StateIn(l.state)
      enc == Lin2Adpcm(block, sin)
      hs  == SubHeaderState(sin, enc.state)
      hdr == PackSubHeader(hs[1], hs[2])
      pay == IF args.codec = "pcm" THEN PcmBytes(block) ELSE hdr \o enc.adpcm
      mag == IF args.codec = "pcm" THEN PCM_FRAME_MAGIC ELSE ADPCM_FRAME_MAGIC
      l1  == [l EXCEPT !.pos = p, !.pcm = block, !.state_in = sin]
  IN  IF args.codec = "pcm"
      THEN IF ~FrameFits(l.seq, pay, mag) THEN Raise(l1, "struct.error")
           ELSE [l1 EXCEPT !.pc = "send", !.out = build_frame(l.seq, pay, mag)]
      ELSE LET l2 == [l1 EXCEPT !.state = enc.state]
           IN  IF ~SubHeaderFits(hs[1], hs[2]) \/ ~FrameFits(l.seq, pay, mag)
               THEN Raise(l2, "struct.error")
               ELSE [l2 EXCEPT !.pc = "send", !.out = build_frame(l.seq, pay, mag)]

\* variant: the source is replayed whether or not --loop was given
LoopingAlways == TRUE

\* if loop:
Looping == args.loop

\* The while loop from the top of an iteration to its next await or its end.
StreamLoop(l) ==
  LET block == ReadFrames(l.pos, FrameSamples)
  IN  IF block # <<>>
      THEN LoopBody(l, block, l.pos + Len(block))
      ELSE IF Looping
      THEN LET first == ReadFrames(0, FrameSamples)
               lr    == [l EXCEPT !.pos = 0, !.pcm = <<>>,
                                  !.state = RewindState(l.state),
                                  !.seq = RewindSeq(l.seq)]
           IN  IF first = <<>>
               THEN [lr EXCEPT !.pc = "spinning", !.out = NoMsg]
               ELSE LoopBody(lr, first, Len(first))
      ELSE [l EXCEPT !.pc = "done", !.out = NoMsg, !.conn = "closed", !.pcm = <<>>]

\* After ws.send(handshake) returned: state = None, seq = 0, the loop.
AfterHandshake(l) ==
  StreamLoop([l EXCEPT !.out = NoMsg, !.state = None, !.seq = 0])

\* frame_samples / sample_rate: the argument of asyncio.sleep after the
\* send of the frame built from block
PacingDelay(block) == <<FrameSamples, wav.framerate>>

\* variant: the handshake is never sent, the frames start at once
OpenWithoutHandshake(i, l, now) ==
  IF BadFormat THEN Raise(l, "ValueError")
  ELSE IF FrameSamples <= 0 THEN Raise(l, "ValueError")
  ELSE AfterHandshake(l)

\* From the opened connection to the await of ws.send(handshake).
OpenAndHandshake(i, l, now) ==
  IF BadFormat THEN Raise(l, "ValueError")
  ELSE IF FrameSamples <= 0 THEN Raise(l, "ValueError")
  ELSE LET codec_id == IF args.codec = "adpcm" THEN 1 ELSE 0
       IN  IF ~HandshakeFits(StreamId(i), wav.framerate,
                             wav.nchannels, codec_id, FrameSamples, now)
           THEN Raise(l, "struct.error")
           ELSE [l EXCEPT !.pc = "hs_send",
                          !.out = build_handshake(StreamId(i),
                                     wav.framerate, wav.nchannels, codec_id,
                                     FrameSamples, now)]

\* After ws.send(frame) returned: seq += 1, then the pacing sleep or the loop.
AfterFrame(l) ==
  LET l1 == [l EXCEPT !.out = NoMsg, !.seq = NextSeq(l.seq)]
  IN  IF args.realtime
      THEN [l1 EXCEPT !.pc = "sleep", !.delay = PacingDelay(l.pcm)]
      ELSE StreamLoop(l1)

\* variant: the exception of ws.send is swallowed and the loop goes on
AfterSendFailureSwallowed(l) == AfterFrame(l)

\* a ws.send that fails raises and the message is not delivered
AfterSendFailure(l) == Raise(l, "ConnectionClosed")

Pending(i) == pc[i] \in {"created", "connecting", "hs_send", "send", "sleep", "spinning"}
Terminal(i) == pc[i] \in {"done", "failed", "cancelled"}

\* No task is stuck in a segment that never yields to the event loop.
LoopFree == \A i \in Tasks : pc[i] # "spinning"

TaskMayRun == mainpc \in {"gather", "raised"} /\ LoopFree

\* the state before main creates the tasks, for a command line of A and a
\* WAV file of W
InitWith(A, W) ==
  /\ call = NoCall
  /\ ret = NoRet
  /\ args \in A
  /\ wav \in W
  /\ mainpc = "start"
  /\ pc = [i \in Tasks |-> "absent"]
  /\ exc = [i \in Tasks |-> NoExc]
  /\ conn = [i \in Tasks |-> "none"]
  /\ sent = [i \in Tasks |-> <<>>]
  /\ out = [i \in Tasks |-> NoMsg]
  /\ pos = [i \in Tasks |-> 0]
  /\ state = [i \in Tasks |-> None]
  /\ state_in = [i \in Tasks |-> None]
  /\ seq = [i \in Tasks |-> 0]
  /\ pcm = [i \in Tasks |-> <<>>]
  /\ delay = [i \in Tasks |-> NoDelay]

Init == InitWith(ArgSets, WavFiles)

\* main: create the tasks and await asyncio.gather(*tasks)
Spawn ==
  /\ mainpc = "start"
  /\ mainpc' = IF args.streams <= 0 THEN "returned" ELSE "gather"
  /\ pc' = [i \in Tasks |-> IF i \in Launched THEN "created" ELSE "absent"]
  /\ UNCHANGED <<call, ret, args, wav, exc, conn, sent, out, pos, state, state_in, seq, pcm, delay>>

\* first step of a task: websockets.connect is awaited
TaskStart(i) ==
  /\ TaskMayRun
  /\ pc[i] = "created"
  /\ pc' = [pc EXCEPT ![i] = "connecting"]
  /\ conn' = [conn EXCEPT ![i] = "connecting"]
  /\ UNCHANGED <<call, ret, args, wav, mainpc, exc, sent, out, pos, state, state_in, seq, pcm, delay>>

\* the connection is established: open the file, check it, send the handshake
ConnectOk(i) ==
  /\ TaskMayRun
  /\ pc[i] = "connecting"
  /\ \E now \in ClockValues :
       Store(i, OpenAndHandshake(i, [Local(i) EXCEPT !.conn = "open"], now))
  /\ UNCHANGED <<call, ret, args, wav, mainpc, sent>>

\* the connection cannot be established
ConnectFail(i) ==
  /\ TaskMayRun
  /\ pc[i] = "connecting"
  /\ Store(i, Raise([Local(i) EXCEPT !.conn = "refused"], "OSError"))
  /\ UNCHANGED <<call, ret, args, wav, mainpc, sent>>

\* ws.send(handshake) succeeds
HandshakeSent(i) ==
  /\ TaskMayRun
  /\ pc[i] = "hs_send"
  /\ sent' = [sent EXCEPT ![i] = Append(@, out[i])]
  /\ Store(i, AfterHandshake(Local(i)))
  /\ UNCHANGED <<call, ret, args, wav, mainpc>>

\* ws.send(frame) succeeds
FrameSent(i) ==
  /\ TaskMayRun
  /\ pc[i] = "send"
  /\ sent' = [sent EXCEPT ![i] = Append(@, out[i])]
  /\ Store(i, AfterFrame(Local(i)))
  /\ UNCHANGED <<call, ret, args, wav, mainpc>>

\* ws.send fails
SendFail(i) ==
  /\ TaskMayRun
  /\ pc[i] \in {"hs_send", "send"}
  /\ Store(i, AfterSendFailure(Local(i)))
  /\ UNCHANGED <<call, ret, args, wav, mainpc, sent>>

\* asyncio.sleep(frame_samples / sample_rate) is over
Wake(i) ==
  /\ TaskMayRun
  /\ pc[i] = "sleep"
  /\ Store(i, StreamLoop([Local(i) EXCEPT !.delay = NoDelay]))
  /\ UNCHANGED <<call, ret, args, wav, mainpc, sent>>

\* asyncio.gather: every task has finished without an exception
GatherReturn ==
  /\ mainpc = "gather"
  /\ LoopFree
  /\ \A i \in Launched : pc[i] = "done"
  /\ mainpc' = "returned"
  /\ UNCHANGED <<call, ret, args, wav, pc, exc, conn, sent, out, pos, state, state_in, seq, pcm, delay>>

\* asyncio.gather without return_exceptions: the first exception of a task
\* is raised in main at once; the other tasks are left as they are
GatherRaise ==
  /\ mainpc = "gather"
  /\ LoopFree
  /\ \E i \in Launched : pc[i] = "failed"
  /\ mainpc' = "raised"
  /\ UNCHANGED <<call, ret, args, wav, pc, exc, conn, sent, out, pos, state, state_in, seq, pcm, delay>>

\* a task still pending when main has ended gets CancelledError at its await
Cancelled(l) ==
  [l EXCEPT !.pc = "cancelled", !.exc = "CancelledError", !.out = NoMsg,
            !.conn = IF l.conn \in {"open", "connecting"} THEN "closed" ELSE l.conn]

\* asyncio.run(main()): main has ended, the pending tasks are cancelled
\* and the event loop is closed
RunClose ==
  /\ mainpc \in {"returned", "raised"}
  /\ LoopFree
  /\ mainpc' = "closed"
  /\ LET l == [i \in Tasks |-> IF Pending(i) THEN Cancelled(Local(i)) ELSE Local(i)]
     IN  /\ pc' = [i \in Tasks |-> l[i].pc]
         /\ exc' = [i \in Tasks |-> l[i].exc]
         /\ conn' = [i \in Tasks |-> l[i].conn]
         /\ out' = [i \in Tasks |-> l[i].out]
  /\ UNCHANGED <<call, ret, args, wav, sent, pos, state, state_in, seq, pcm, delay>>

Next ==
  \/ Spawn
  \/ \E i \in Tasks : TaskStart(i)
  \/ \E i \in Tasks : ConnectOk(i)
  \/ \E i \in Tasks : ConnectFail(i)
  \/ \E i \in Tasks : HandshakeSent(i)
  \/ \E i \in Tasks : FrameSent(i)
  \/ \E i \in Tasks : SendFail(i)
  \/ \E i \in Tasks : Wake(i)
  \/ GatherReturn
  \/ GatherRaise
  \/ RunClose

Spec == Init /\ [][Next]_vars

(***************************************************************************)
(* stream_once run as the only task, its codec argument being any string:  *)
(* the two choices of --codec and one other value.                         *)
(***************************************************************************)
CodecArguments == {"adpcm", "pcm", "opus"}

OnceArgSets ==
  [streams : {1}, stream_id_base : StreamIdBases, frame_ms : FrameMsValues,
   realtime : BOOLEAN, loop : BOOLEAN, codec : CodecArguments]

InitOnce == InitWith(OnceArgSets, WavFiles)

SpecOnce == InitOnce /\ [][Next]_vars

(***************************************************************************)
(* build_handshake called on its own, for arguments of HandshakeCalls.     *)
(***************************************************************************)
InitHandshake ==
  /\ call \in HandshakeCalls
  /\ ret = NoRet
  /\ args = [streams |-> 0, stream_id_base |-> 5, frame_ms |-> 2,
             realtime |-> FALSE, loop |-> FALSE, codec |-> "adpcm"]
  /\ wav = [nchannels |-> 1, sampwidth |-> 2, framerate |-> 1000, samples |-> <<>>]
  /\ mainpc = "start"
  /\ pc = [i \in Tasks |-> "absent"]
  /\ exc = [i \in Tasks |-> NoExc]
  /\ conn = [i \in Tasks |-> "none"]
  /\ sent = [i \in Tasks |-> <<>>]
  /\ out = [i \in Tasks |-> NoMsg]
  /\ pos = [i \in Tasks |-> 0]
  /\ state = [i \in Tasks |-> None]
  /\ state_in = [i \in Tasks |-> None]
  /\ seq = [i \in Tasks |-> 0]
  /\ pcm = [i \in Tasks |-> <<>>]
  /\ delay = [i \in Tasks |-> NoDelay]

\* return struct.pack("<IHHIIHHHHQ", ...)
CallBuildHandshake ==
  /\ ret.status = "idle"
  /\ ret' = IF HandshakeFits(call.stream_id, call.sample_rate, call.channels,
                             call.codec, call.frame_samples, call.timestamp_ms)
            THEN [status |-> "returned",
                  bytes |-> HandshakeBytes(
                              build_handshake(call.stream_id, call.sample_rate,
                                              call.channels, call.codec,
                                              call.frame_samples, call.timestamp_ms))]
            ELSE [status |-> "struct.error", bytes |-> <<>>]
  /\ UNCHANGED <<call, args, wav, mainpc, pc, exc, conn, sent, out, pos, state,
                 state_in, seq, pcm, delay>>

SpecHandshake == InitHandshake /\ [][CallBuildHandshake]_vars

(***************************************************************************)
(* The same program on a transport that accepts every connection and every *)
(* message, with the scheduling of the asyncio event loop: while a task or *)
(* main is ready to run, the loop runs one of them.  (Fairness to every    *)
(* single task implies this condition, so what holds under it holds under  *)
(* per-task fairness too.)                                                 *)
(***************************************************************************)
NextReliable ==
  \/ Spawn
  \/ \E i \in Tasks : TaskStart(i)
  \/ \E i \in Tasks : ConnectOk(i)
  \/ \E i \in Tasks : HandshakeSent(i)
  \/ \E i \in Tasks : FrameSent(i)
  \/ \E i \in Tasks : Wake(i)
  \/ GatherReturn
  \/ GatherRaise
  \/ RunClose

\* (one waveform, one sample rate and 16-bit samples; mono and stereo files)
ReliableWavFiles ==
  {w \in WavFiles : w.sampwidth = 2 /\ w.framerate = 1000 /\ \E n \in 0..MaxSamples :
                       w.samples = SubSeq(<<1000, -2000, 30000, 5, 7, -32768, 32767, 0>>, 1, n)}

InitReliable == InitWith(ArgSets, ReliableWavFiles)

ReliableSpec ==
  /\ InitReliable
  /\ [][NextReliable]_vars
  /\ WF_vars(NextReliable)

(***************************************************************************)
(* Properties.                                                             *)
(***************************************************************************)
\* the frames the connection of task i has accepted, in order
FramesSent(i) == SelectSeq(sent[i], IsFrame)

\* task i awaits the send of a frame built from the first block of the
\* source after at least one earlier frame: a loop restart lies behind it
FirstFrameAfterRestart(i) ==
  /\ args.loop
  /\ pc[i] = "send"
  /\ pos[i] = Len(pcm[i])
  /\ seq[i] > 0

\* C1: on every connection the handshake is the first message and the only
\* handshake: no frame is accepted or handed to the transport before it, no
\* second handshake follows (neither after a loop restart), and a session
\* that streams or has finished has sent exactly one.
C1_HandshakeOnceFirst ==
  \A i \in Tasks :
    /\ \A k \in 1..Len(sent[i]) : IsHandshake(sent[i][k]) <=> k = 1
    /\ IsHandshake(out[i]) => sent[i] = <<>>
    /\ IsFrame(out[i]) => Len(sent[i]) >= 1
    /\ pc[i] \in {"send", "sleep", "spinning", "done"} =>
         Len(SelectSeq(sent[i], IsHandshake)) = 1

\* C1 witness: a looping session sends a frame after a restart, with the
\* handshake and earlier frames behind it
C1_Witness ==
  \E i \in Tasks : FirstFrameAfterRestart(i) /\ Len(sent[i]) >= 2

\* C2: the k-th frame a connection accepted (k = 0, 1, ...) carries the
\* sequence number k, whatever the number of loop restarts.
C2_SequenceNumbers ==
  \A i \in Tasks :
    \A k \in 1..Len(FramesSent(i)) : FramesSent(i)[k].seq = k - 1

\* C2 witness: frames of a second pass have been accepted
C2_Witness ==
  \E i \in Tasks :
    /\ args.loop
    /\ Len(FramesSent(i)) >= 3
    /\ \E k \in 2..Len(FramesSent(i)) :
         FramesSent(i)[k].payload = FramesSent(i)[1].payload

\* a step of task i that rewinds the exhausted source and builds the next
\* frame from its first block
RestartStep(i) ==
  /\ \/ pc[i] = "send" /\ sent'[i] # sent[i]
     \/ pc[i] = "sleep"
  /\ pos[i] = Len(wav.samples)
  /\ pc'[i] = "send"
  /\ pos'[i] = Len(pcm'[i])
  /\ pos'[i] - Len(pcm'[i]) < pos[i]

\* C3: when the source is exhausted and looping is enabled, the next frame
\* is encoded from codec state (0, 0) and carries the number of frames sent
\* before the restart: the sequence counter keeps its value.
C3_LoopRestart ==
  [][\A i \in Tasks :
       RestartStep(i) =>
         /\ args.loop
         /\ state_in'[i] = <<0, 0>>
         /\ seq'[i] = Len(SelectSeq(sent'[i], IsFrame))
         /\ out'[i].seq = Len(SelectSeq(sent'[i], IsFrame))
         /\ out'[i].seq > 0]_vars

\* C3 witness: a compressed frame that follows a restart, the pass before
\* having left the codec state away from (0, 0)
C3_Witness ==
  \E i \in Tasks :
    /\ FirstFrameAfterRestart(i)
    /\ args.codec = "adpcm"
    /\ Len(pcm[i]) < Len(wav.samples)
    /\ state[i] # <<0, 0>>

\* C4: the first three bytes of the sub-header of a compressed frame hold
\* the codec state that was passed into the encoder for that frame (encoding
\* the block from it gives the payload and the state after), the fourth is 0.
C4_SubHeaderIsStateBefore ==
  \A i \in Tasks :
    (pc[i] = "send" /\ out[i].magic = ADPCM_FRAME_MAGIC) =>
      LET p   == out[i].payload
          hst == <<UnpackInt16(<<p[1], p[2]>>), p[3]>>
      IN  /\ Len(p) >= 4
          /\ hst = state_in[i]
          /\ p[4] = 0
          /\ Lin2Adpcm(pcm[i], hst).state = state[i]
          /\ Lin2Adpcm(pcm[i], hst).adpcm = SubSeq(p, 5, Len(p))

\* C4 witness: a compressed frame whose encoder input state has a negative
\* predictor and differs from the state after the encoding
C4_Witness ==
  \E i \in Tasks :
    /\ pc[i] = "send"
    /\ out[i].magic = ADPCM_FRAME_MAGIC
    /\ state_in[i][1] < 0
    /\ state_in[i] # state[i]

\* C5 (as claimed): a compressed frame built from a block of N >= 1 samples
\* has a payload of ceil(N/2) + 4 bytes, and its length field says so.
C5_PayloadLengthCeil ==
  \A i \in Tasks :
    (pc[i] = "send" /\ out[i].magic = ADPCM_FRAME_MAGIC) =>
      /\ Len(out[i].payload) = ((Len(pcm[i]) + 1) \div 2) + 4
      /\ out[i].len = ((Len(pcm[i]) + 1) \div 2) + 4

\* C6: with a channel count other than 1, a sample width other than 2 or
\* int(sample_rate * frame_ms / 1000) <= 0, no session ever sends or gets
\* to send a handshake or a frame, and every session that got its
\* connection fails with an error.
C6_ConfigErrorSendsNothing ==
  (\/ wav.nchannels # 1
   \/ wav.sampwidth # 2
   \/ IntDiv1000(wav.framerate * args.frame_ms) <= 0) =>
    \A i \in Tasks :
      /\ sent[i] = <<>>
      /\ out[i] = NoMsg
      /\ pc[i] \in {"absent", "created", "connecting", "failed", "cancelled"}
      /\ pc[i] = "failed" => exc[i] \in {"ValueError", "OSError"}
      /\ conn[i] = "closed" /\ pc[i] = "failed" => exc[i] = "ValueError"

\* C6 witness: a session of a source with 8-bit samples has failed
C6_Witness ==
  \E i \in Tasks :
    /\ wav.nchannels = 1 /\ wav.sampwidth = 1
    /\ IntDiv1000(wav.framerate * args.frame_ms) > 0
    /\ pc[i] = "failed" /\ exc[i] = "ValueError"

\* C7 (as claimed): a session that ends with a configuration error has done
\* no transport operation: its connection was never opened.
C7_ConfigErrorBeforeNetwork ==
  \A i \in Tasks :
    (pc[i] = "failed" /\ exc[i] = "ValueError") => conn[i] = "none"

\* the awaited send of task i ends without the message being accepted and
\* without the task being cancelled
SendEndsUndelivered(i) ==
  /\ pc[i] \in {"hs_send", "send"}
  /\ sent'[i] = sent[i]
  /\ pc'[i] # "cancelled"
  /\ <<pc[i], out[i], seq[i]>> # <<pc'[i], out'[i], seq'[i]>>

Aborted(i) == pc[i] = "failed" /\ exc[i] = "ConnectionClosed"

\* C8: a failed send (handshake or frame) puts the session in ABORTED with
\* the message dropped and the sequence counter as it was; ABORTED is
\* terminal: nothing more is sent, so a failed handshake means no frame.
C8_SendFailureAborts ==
  [][\A i \in Tasks :
       /\ SendEndsUndelivered(i) =>
            /\ pc'[i] = "failed" /\ exc'[i] = "ConnectionClosed"
            /\ out'[i] = NoMsg
            /\ seq'[i] = seq[i]
            /\ pc[i] = "hs_send" => sent'[i] = <<>>
       /\ Aborted(i) =>
            /\ pc'[i] = pc[i] /\ exc'[i] = exc[i]
            /\ sent'[i] = sent[i] /\ out'[i] = out[i] /\ seq'[i] = seq[i]]_vars

\* C8 witness: a session aborted by a failed frame send after it had sent
\* frames, with main gone on
C8_Witness ==
  \E i \in Tasks :
    /\ Aborted(i)
    /\ Len(FramesSent(i)) >= 1
    /\ seq[i] = Len(FramesSent(i))
    /\ mainpc = "closed"

\* C9 (as claimed): a session ends only in DONE or through its own failure:
\* none is cancelled because a sibling failed.
C9_SiblingsUnaffected ==
  \A i \in Tasks : Terminal(i) => pc[i] \in {"done", "failed"}

\* C10 (as claimed): when the wait in main has returned or raised, every
\* launched session is in a terminal state.
C10_WaitCoversAllSessions ==
  mainpc \in {"returned", "raised"} => \A i \in Launched : Terminal(i)

\* the handshakes task i has sent or handed to the transport
Handshakes(i) ==
  {sent[i][k] : k \in {n \in 1..Len(sent[i]) : IsHandshake(sent[i][n])}}
    \cup (IF IsHandshake(out[i]) THEN {out[i]} ELSE {})

\* C11: for N streams and base B main launches exactly N sessions, one per
\* identifier B, B+1, ..., B+N-1; the identifiers are pairwise distinct and
\* the handshake of each session carries its own.
C11_StreamIdentifiers ==
  mainpc # "start" =>
    /\ Cardinality({i \in Tasks : pc[i] # "absent"}) = args.streams
    /\ \A i \in Tasks :
         /\ pc[i] # "absent" <=> i \in 0..(args.streams - 1)
         /\ \A h \in Handshakes(i) :
              /\ h.streamId = args.stream_id_base + i
              /\ h.streamId \in
                   args.stream_id_base..(args.stream_id_base + args.streams - 1)
              /\ \A j \in Tasks \ {i} : \A g \in Handshakes(j) :
                   g.streamId # h.streamId

\* C11 witness: as many sessions as the bound allows have sent their
\* handshake
C11_Witness ==
  /\ args.streams = MaxStreams
  /\ args.streams >= 2
  /\ \A i \in Tasks : Len(sent[i]) >= 1 /\ IsHandshake(sent[i][1])

\* ceil(S / F): the frames of one pass over the source
FramesOfPass ==
  (Len(wav.samples) + FrameSamples - 1) \div FrameSamples

\* the samples of the k-th frame of a pass, k = 0, 1, ...
BlockOfPass(k) ==
  SubSeq(wav.samples, k * FrameSamples + 1,
         Min((k + 1) * FrameSamples, Len(wav.samples)))

C14_PacingDelayIsPlaybackTime ==
  \A i \in Tasks :
    /\ pc[i] = "sleep" =>
         /\ args.realtime
         /\ delay[i][1] * wav.framerate = Len(pcm[i]) * delay[i][2]
    /\ ~args.realtime => pc[i] # "sleep"

\* the source passes the format checks and the handshake fields fit
ValidSettings ==
  /\ wav.nchannels = 1
  /\ wav.sampwidth = 2
  /\ IntDiv1000(wav.framerate * args.frame_ms) \in 1..(U16Limit - 1)

C17_LoopingNeverEnds ==
  (args.loop /\ ValidSettings /\ Len(wav.samples) >= 1) =>
    \A i \in Launched :
      /\ ~Terminal(i)
      /\ pc[i] = "send" => out[i].seq = Len(FramesSent(i))

\* C15: for inputs that fit their fields build_handshake returns exactly 32
\* bytes which, decoded little-endian at the offsets of magic(u32),
\* version(u16), headerLen(u16), streamId(u32), sampleRate(u32),
\* channels(u16), codec(u16), frameSamples(u16), reserved(u16),
\* timestampMs(u64), give back every input, with magic 0x41445043,
\* version 1, headerLen equal to the length of the record and reserved 0.
C15_HandshakeRoundTrip ==
  /\ ret.status = "struct.error" =>
       ~(/\ call.stream_id >= 0 /\ call.sample_rate >= 0 /\ call.timestamp_ms >= 0
         /\ call.channels \in 0..65535 /\ call.codec \in 0..65535
         /\ call.frame_samples \in 0..65535)
  /\ ret.status = "returned" =>
       /\ Len(ret.bytes) = 32
       /\ \A k \in 1..Len(ret.bytes) : ret.bytes[k] \in 0..255
       /\ LET d == DecodeHandshake(ret.bytes)
          IN  /\ d.magic = 1094996035
              /\ d.version = 1
              /\ d.headerLen = Len(ret.bytes)
              /\ d.streamId = call.stream_id
              /\ d.sampleRate = call.sample_rate
              /\ d.channels = call.channels
              /\ d.codec = call.codec
              /\ d.frameSamples = call.frame_samples
              /\ d.reserved = 0
              /\ d.timestampMs = call.timestamp_ms

\* C15 witness: a handshake was returned for arguments at the upper ends of
\* the 16-bit fields, with distinct channels and codec
C15_Witness ==
  /\ ret.status = "returned"
  /\ call.channels = 65535
  /\ call.codec = 1
  /\ call.frame_samples = 65535
  /\ call.stream_id = 305419896
  /\ call.timestamp_ms = 2147483647

\* a step of task i that ends at the send of a newly built frame
NewFrame(i) ==
  /\ pc'[i] = "send"
  /\ pc[i] # "send" \/ sent'[i] # sent[i]

\* C16: in compressed mode the codec state is threaded without breaks.  The
\* first frame of a session is encoded from (0, 0); within a pass frame k+1
\* is encoded from, and carries in its sub-header, the state the encoder
\* returned for frame k; and the state changes only in a step that encodes a
\* block (after a loop restart: from (0, 0)).
C16_StateThreading ==
  [][\A i \in Tasks :
       args.codec = "adpcm" =>
         /\ (NewFrame(i) /\ pc[i] = "hs_send") => state_in'[i] = <<0, 0>>
         /\ (NewFrame(i) /\ pc[i] # "hs_send" /\ ~RestartStep(i)) =>
              /\ state[i] = Lin2Adpcm(pcm[i], state_in[i]).state
              /\ state_in'[i] = state[i]
              /\ SubSeq(out'[i].payload, 1, 3)
                   = PackInt16(state[i][1]) \o <<state[i][2]>>
              /\ pos'[i] - Len(pcm'[i]) = pos[i]
         /\ state'[i] # state[i] =>
              /\ NewFrame(i) \/ pc'[i] = "failed"
              /\ state'[i] = Lin2Adpcm(pcm'[i], state_in'[i]).state
              /\ RestartStep(i) => state_in'[i] = <<0, 0>>]_vars

\* C16 witness: a compressed frame from the middle of a pass, encoded from
\* the state the frame before it left, and that state is not (0, 0)
C16_Witness ==
  \E i \in Tasks :
    /\ pc[i] = "send"
    /\ args.codec = "adpcm"
    /\ out[i].seq >= 1
    /\ pos[i] > Len(pcm[i])
    /\ state_in[i] # <<0, 0>>
    /\ UnpackInt16(SubSeq(out[i].payload, 1, 2)) = state_in[i][1]

\* C18 (as claimed): no session blocks another.  Every segment a session
\* runs ends at a suspension point (a send, a pacing sleep) or in a terminal
\* state, for every source and setting, so that while main waits every
\* session that is not finished can be run by the event loop.
C18_NoSessionBlocks ==
  \A i \in Tasks :
    /\ pc[i] # "spinning"
    /\ (Pending(i) /\ mainpc = "gather") => TaskMayRun

\* A session run alone: its local variables when the handshake is handed
\* to the transport, and when it awaits the send of frame k = 0, 1, ...
SoloStart ==
  [pc |-> "hs_send", exc |-> NoExc, conn |-> "open", out |-> NoMsg, pos |-> 0,
   state |-> None, state_in |-> None, seq |-> 0, pcm |-> <<>>, delay |-> NoDelay]

RECURSIVE SoloAwait(_)
SoloAwait(k) ==
  IF k = 0 THEN AfterHandshake(SoloStart)
  ELSE CHOOSE r \in
         { StreamLoop(l) :
             l \in {[SoloAwait(k - 1) EXCEPT !.out = NoMsg, !.seq = NextSeq(@)]} } : TRUE

\* what task i has sent, its read position, codec state and sequence
\* counter: only its own steps may change them
Own(i) == <<sent[i], pos[i], state[i], state_in[i], seq[i], pcm[i]>>

\* C19: sessions share no mutable state.  In every interleaving the frame a
\* session hands to the transport, and so every frame it sends (magic,
\* length, sequence number, sub-header, payload), is the frame of the same
\* number of the session run alone, and so are its sequence counter, codec
\* state and read position; a step in which these change for one session
\* changes nothing of any other session.
C19_SessionsIndependent ==
  [][\A i \in Tasks :
       /\ NewFrame(i) =>
            \E solo \in {SoloAwait(seq'[i])} :
              /\ out'[i] = solo.out
              /\ state'[i] = solo.state
              /\ pos'[i] = solo.pos
              /\ seq'[i] = Len(SelectSeq(sent'[i], IsFrame))
       /\ (pc'[i] = "send" /\ ~NewFrame(i)) =>
            out'[i] = out[i] /\ Own(i)' = Own(i)
       /\ sent'[i] # sent[i] => sent'[i] = Append(sent[i], out[i])
       /\ (pc[i] # "done" /\ pc'[i] = "done") =>
            SoloAwait(Len(SelectSeq(sent'[i], IsFrame))).pc = "done"
       /\ Own(i)' # Own(i) =>
            \A j \in Tasks \ {i} :
              /\ Own(j)' = Own(j)
              /\ pc'[j] = pc[j] /\ exc'[j] = exc[j] /\ conn'[j] = conn[j]
              /\ out'[j] = out[j] /\ delay'[j] = delay[j]]_vars

\* C19 witness: two compressed sessions on the same source at different
\* places, each awaiting the send of a frame
C19_Witness ==
  \E i, j \in Tasks :
    /\ args.codec = "adpcm"
    /\ pc[i] = "send" /\ pc[j] = "send"
    /\ seq[i] > seq[j]
    /\ seq[j] >= 1
    /\ state[i] # state[j]
    /\ pos[i] # pos[j]

\* C20 (as claimed): whatever the codec argument, the codec identifier of
\* the handshake agrees with the frames: it is 1 exactly when a frame has
\* the compressed magic, a sub-header and packed codes, and 0 exactly when a
\* frame has the raw magic and the PCM block as its payload, the codec state
\* being left untouched.
C20_CodecIdAgreesWithFrames ==
  \A i \in Tasks :
    pc[i] = "send" =>
      /\ sent[i][1].codec \in {0, 1}
      /\ sent[i][1].codec = 1 <=> out[i].magic = ADPCM_FRAME_MAGIC
      /\ sent[i][1].codec = 0 <=> out[i].magic = PCM_FRAME_MAGIC
      /\ sent[i][1].codec = 1 =>
           out[i].payload = PackSubHeader(state_in[i][1], state_in[i][2])
                              \o Lin2Adpcm(pcm[i], state_in[i]).adpcm
      /\ sent[i][1].codec = 0 =>
           out[i].payload = PcmBytes(pcm[i]) /\ state[i] = None

====
